---- MODULE Spec2Model ----
(***************************************************************************)
(* The batching + concurrent forwarding pipeline of the OCI log function:  *)
(* handleFunctionWithClient (the driver), loggroup.splitLogsIntoBatches    *)
(* (the Batcher), util.ProduceMessageToChannel (the blocking send on the   *)
(* unbuffered channel) and util.ConsumeLogBatches (one worker goroutine).  *)
(*                                                                         *)
(* A record is modelled by what json.Marshal makes of it: the length of    *)
(* its serialized form (1..MaxRecordSize), or 0 when Marshal returns an    *)
(* error.  A batch is the sequence of the input positions it holds, so     *)
(* that loss and duplication of a record are visible.                      *)
(***************************************************************************)
EXTENDS Integers, Sequences, FiniteSets, TLC

\* Bounds of the model.
MaxLogs == 3
MaxRecordSize == 3
MaxPayload == 2
NumberOfWorkers == 2
NumberOfCallers == 2
MaxTime == 3
MaxResolutions == 3
MaxEnvLen == 3

\* common.DefaultClientTTL, in seconds
DefaultClientTTL == 600

Workers == 1..NumberOfWorkers

\* the goroutines that call util.NewNRClient
Callers == 1..NumberOfCallers

VARIABLES
    clientOk,         \* util.NewNRClient() returns a nil error
    parseOk,          \* json.Unmarshal of the payload succeeds
    logs,             \* event.OCILoggingEvent: marshalled size per record, 0 = Marshal fails
    maxPayloadSize,   \* the maxPayloadSize argument of splitLogsIntoBatches
    attributes,       \* the commonAttributes argument of splitLogsIntoBatches
    mainPc,           \* position of handleFunctionWithClient
    idx,              \* position of the range loop over logs
    currentBatch,     \* splitLogsIntoBatches: currentBatch (input positions)
    currentBatchSize, \* splitLogsIntoBatches: currentBatchSize
    afterSend,        \* where the driver continues when its pending send completes
    closed,           \* close(channel) has run
    wg,               \* sync.WaitGroup counter
    ctxDone,          \* ctx.Done() is closed
    workerPc,         \* position of each ConsumeLogBatches goroutine
    workerBatch,      \* the send a worker holds (0 = none)
    emitted,          \* history: batches handed to ProduceMessageToChannel, in order
    recvCount,        \* history: per send, number of receives that took it
    sinkCalls,        \* history: per send, number of CreateLogEntry invocations
    firstErr,         \* history: lowest send whose CreateLogEntry returned an error (0 = none)
    sentMsgs,         \* history: per send, the DetailedLogsBatch value put on the channel
    envTTL,           \* the CLIENT_TTL environment variable: set or not, and its characters
    now,              \* the wall clock, in seconds
    cachedNRClient,   \* util.cachedNRClient: 0 = nil, k = the client built by the k-th createNRClient
    nrClientError,    \* util.nrClientError is a non-nil error
    clientCacheTime,  \* util.clientCacheTime
    nrClientOnce,     \* util.nrClientOnce: "new", "running" (f is executing) or "done"
    resolutions,      \* history: number of createNRClient calls that have returned
    lastCreated,      \* history: <<client, error>> returned by the latest createNRClient
    callPc,           \* position of each goroutine that calls NewNRClient
    resAtCall,        \* history: resolutions when the latest NewNRClient call began
    lastReturn,       \* history: <<client, error>> returned by the latest finished NewNRClient
    lastTTL,          \* history: << >>, or <<d>> with d the latest result of getClientTTL
    callLocal,        \* per caller: <<client, error>> it holds outside the globals
    errorFrom,        \* history: the createNRClient run whose error nrClientError holds
    lastReturnErrFrom, \* history: the createNRClient run whose error the latest return carried
    secretsEnv,       \* what GetLicenseKeyWithContext finds: environment and vault
    licenseCall       \* GetLicenseKeyWithContext: position, result and calls made

vars == << clientOk, parseOk, logs, maxPayloadSize, attributes, mainPc, idx, currentBatch,
           currentBatchSize, afterSend, closed, wg, ctxDone, workerPc, workerBatch,
           emitted, recvCount, sinkCalls, firstErr, sentMsgs,
           envTTL, now, cachedNRClient, nrClientError, clientCacheTime, nrClientOnce,
           resolutions, lastCreated, callPc, resAtCall, lastReturn, lastTTL,
           callLocal, errorFrom, lastReturnErrFrom, secretsEnv, licenseCall >>

inputVars == << clientOk, parseOk, logs, maxPayloadSize, attributes >>
batcherVars == << idx, currentBatch, currentBatchSize >>
historyVars == << emitted, recvCount, sinkCalls, firstErr, sentMsgs >>
originVars == << callLocal, errorFrom, lastReturnErrFrom >>
cacheVars == << envTTL, now, cachedNRClient, nrClientError, clientCacheTime, nrClientOnce,
                resolutions, lastCreated, callPc, resAtCall, lastReturn, lastTTL, originVars >>
licenseVars == << secretsEnv, licenseCall >>
utilVars == << cacheVars, licenseVars >>

(***************************************************************************)
(* Pure helpers.                                                           *)
(***************************************************************************)
RECURSIVE SeqsUpTo(_, _)
SeqsUpTo(S, n) ==
    IF n = 0 THEN { << >> }
    ELSE LET shorter == SeqsUpTo(S, n - 1)
         IN  shorter \cup { Append(s, x) : s \in { t \in shorter : Len(t) = n - 1 }, x \in S }

Range(s) == { s[k] : k \in 1..Len(s) }

\* len(json.Marshal(logData)); 0 stands for a Marshal error
LogSize(i) == logs[i]

MarshalFails(i) == logs[i] = 0

\* faulty variant: the Marshal error is not checked
NoSkip(i) == FALSE

\* if err != nil { log.Debugf(...); continue }
SkipOnMarshalError(i) == MarshalFails(i)

RECURSIVE BatchSize(_)
BatchSize(b) == IF b = << >> THEN 0 ELSE LogSize(Head(b)) + BatchSize(Tail(b))

RECURSIVE TotalRecords(_)
TotalRecords(bs) == IF bs = << >> THEN 0 ELSE Len(Head(bs)) + TotalRecords(Tail(bs))

(***************************************************************************)
(* splitLogsIntoBatches: the decisions of one loop iteration.              *)
(***************************************************************************)
\* faulty variant: a batch that would exactly reach the limit already overflows
OverflowsAtLimit(curSize, logSize, curLen, maxSize) ==
    curSize + logSize >= maxSize /\ curLen > 0

\* faulty variant: the size limit is never applied
NeverOverflows(curSize, logSize, curLen, maxSize) == FALSE

\* if currentBatchSize+logSize > maxPayloadSize && len(currentBatch) > 0
Overflows(curSize, logSize, curLen, maxSize) ==
    curSize + logSize > maxSize /\ curLen > 0

\* currentBatch = common.LogData{logData}
OverflowBatch(cur, i) == << i >>

\* faulty variant: the running size is reset instead of set to the record's size
ZeroBatchSize(logSize) == 0

\* currentBatchSize = logSize
OverflowBatchSize(logSize) == logSize

\* the batch passed to ProduceMessageToChannel in the overflow branch:
\* currentBatch, read after it was reassigned
OverflowEmit(cur, i) == OverflowBatch(cur, i)

\* faulty variant: the record is put in front of the running batch
PrependBatch(cur, i) == << i >> \o cur

\* currentBatch = append(currentBatch, logData)
AppendBatch(cur, i) == Append(cur, i)

\* faulty variant: one DetailedLog per record instead of one per batch
DetailedLogPerRecord(batch, attrs) ==
    [k \in 1..Len(batch) |-> [attributes |-> attrs, entries |-> << batch[k] >>]]

\* faulty variant: the attributes are left out of the DetailedLog
WithoutAttributes(batch, attrs) ==
    << [attributes |-> [k \in {} |-> ""], entries |-> batch] >>

\* []common.DetailedLog{{CommonData: common.Common{Attributes: attributes},
\*                       Entries: currentBatch}}
DetailedLogsBatch(batch, attrs) ==
    << [attributes |-> attrs, entries |-> batch] >>

\* attributes := common.LogAttributes{...}: the values are written as the
\* names of the constants of package common that supply them
ProcessLogsAttributes ==
    [k \in {"instrumentation.provider", "instrumentation.name", "instrumentation.version"} |->
        CASE k = "instrumentation.provider" -> "InstrumentationProvider"
          [] k = "instrumentation.name" -> "InstrumentationName"
          [] k = "instrumentation.version" -> "InstrumentationVersion"]

\* commonAttributes of the direct callers of splitLogsIntoBatches
TestAttributes == [k \in {"test.attribute"} |-> "test.value"]

\* faulty variant: the final flush is not guarded
AlwaysFlush(cur) == TRUE

\* if len(currentBatch) > 0
FlushNeeded(cur) == Len(cur) > 0

(***************************************************************************)
(* ConsumeLogBatches / channel: where a step leaves the goroutine.         *)
(***************************************************************************)
\* faulty variant: the worker calls the sink again with a batch that failed
RetryOnError(err) == IF err THEN "recvd" ELSE "select"

\* faulty variant: the worker returns when the sink reports an error
ReturnOnError(err) == IF err THEN "exited" ELSE "select"

\* after CreateLogEntry: error -> log and continue; success -> next iteration
AfterSinkPc(err) == "select"

\* faulty variant: the worker keeps looping on a closed channel
SpinOnClosed == "select"

\* case batch, ok := <-channel: if !ok { return }
OnClosedPc == "exited"

\* faulty variant: the send returns without a receiver, as on a buffered channel
SendWithoutWaiting(ret) == ret

\* channel <- batch on the channel of make(chan common.DetailedLogsBatch): the
\* driver stays in the send until a worker receives
SendPc(ret) == "send"

\* faulty variant: a receive does not consume the value being sent
KeepOffering(ret) == "send"

\* the unbuffered send completes with the one receive that takes the value
AfterRecvMainPc(ret) == ret

\* faulty variant: the error of NewNRClient is not checked
IgnoreClientError(ok) == "unmarshal"

\* nrClient, err := util.NewNRClient(); if err != nil { log.Errorf(...); return }
AfterAcquirePc(ok) == IF ok THEN "unmarshal" ELSE "failed"

\* faulty variant: a payload that does not decode is treated like one that does
IgnoreParseFailure(ok) == "spawn"

\* event.Unmarshal(in): json.Unmarshal fails -> log.Panicf, which panics;
\* otherwise the driver goes on to make the channel and spawn the workers
AfterUnmarshalPc(ok) == IF ok THEN "spawn" ELSE "panicked"

\* faulty variant: the spawn loop stops one worker short
SpawnedAllButOne == 1..(NumberOfWorkers - 1)

\* for i := 0; i < common.NumberOfWorkers; i++ { go util.ConsumeLogBatches(...) }
Spawned == Workers

\* faulty variant: the channel is closed and the Batcher's flush runs after it
CloseThenFlush == "loop"

\* close(channel) is followed by wg.Wait()
AfterClosePc == "wait"

\* faulty variant: the driver waits for one worker too few
WaitAllButOne(c) == c <= 1

\* wg.Wait()
WaitReady(c) == c = 0

(***************************************************************************)
(* Initial state of an invocation: the input, nothing started.  The payload *)
(* was decoded from JSON, so every record marshals; ProcessLogs passes      *)
(* common.MaxPayloadSize, scaled here to MaxPayload.  For the pipeline a    *)
(* record is either small (several fit in a batch) or oversized.            *)
(***************************************************************************)
PipelineRecordSizes == { 1, MaxPayload + 1 }

\* os.Getenv of a variable that is not set
Unset == [set |-> FALSE, val |-> << >>]

\* package util before the first NewNRClient call: the zero values of its globals
CacheEmpty ==
    /\ now = 0
    /\ cachedNRClient = 0
    /\ nrClientError = FALSE
    /\ clientCacheTime = 0
    /\ nrClientOnce = "new"
    /\ resolutions = 0
    /\ lastCreated = << 0, FALSE >>
    /\ callPc = [c \in Callers |-> "idle"]
    /\ resAtCall = 0
    /\ lastReturn = << 0, FALSE >>
    /\ lastTTL = << >>
    /\ callLocal = [c \in Callers |-> << 0, FALSE >>]
    /\ errorFrom = 0
    /\ lastReturnErrFrom = 0

\* GetLicenseKeyWithContext has not been entered
NotCalled ==
    [pc |-> "start", key |-> "", err |-> "nil", clientsBuilt |-> 0, regionSets |-> 0,
     bundleCalls |-> 0]

\* an environment that carries the license key itself, and no vault
KeyInEnvironment ==
    [licenseKey |-> "env-license-key", secretOCID |-> "", vaultRegion |-> "",
     principalOk |-> FALSE, response |-> [kind |-> "error", content |-> ""]]

\* the client cache and the credential lookup as the pipeline leaves them
UtilIdle ==
    /\ envTTL = Unset
    /\ CacheEmpty
    /\ secretsEnv = KeyInEnvironment
    /\ licenseCall = NotCalled

NothingStarted ==
    /\ idx = 1
    /\ currentBatch = << >>
    /\ currentBatchSize = 0
    /\ afterSend = "loop"
    /\ closed = FALSE
    /\ wg = 0
    /\ ctxDone = FALSE
    /\ workerPc = [w \in Workers |-> "notstarted"]
    /\ workerBatch = [w \in Workers |-> 0]
    /\ emitted = << >>
    /\ recvCount = << >>
    /\ sinkCalls = << >>
    /\ firstErr = 0
    /\ sentMsgs = << >>

Init ==
    /\ clientOk = TRUE
    /\ parseOk \in BOOLEAN
    /\ logs \in SeqsUpTo(PipelineRecordSizes, MaxLogs)
    /\ (~parseOk => logs = << >>)
    /\ maxPayloadSize = MaxPayload
    /\ attributes = ProcessLogsAttributes
    /\ mainPc = "unmarshal"
    /\ NothingStarted
    /\ UtilIdle

(***************************************************************************)
(* The driver: handleFunctionWithClient.                                   *)
(***************************************************************************)
\* event.Unmarshal(in): a payload that does not decode makes Unmarshal panic
\* (log.Panicf); otherwise EventType is OCI_LOGGING and the error is nil.
Unmarshal ==
    /\ mainPc = "unmarshal"
    /\ mainPc' = AfterUnmarshalPc(parseOk)
    /\ UNCHANGED << utilVars, inputVars, batcherVars, afterSend, closed, wg, ctxDone,
                    workerPc, workerBatch, historyVars >>

\* make(chan), wg.Add(NumberOfWorkers), go ConsumeLogBatches(...) x N
StartWorkers ==
    /\ mainPc = "spawn"
    /\ wg' = NumberOfWorkers
    /\ workerPc' = [w \in Workers |-> IF w \in Spawned THEN "select" ELSE "notstarted"]
    /\ mainPc' = "loop"
    /\ UNCHANGED << utilVars, inputVars, batcherVars, afterSend, closed, ctxDone,
                    workerBatch, historyVars >>

\* the driver starts a send: ProduceMessageToChannel(channel, batch, attributes)
StartSend(batch, ret) ==
    /\ mainPc' = SendPc(ret)
    /\ afterSend' = ret
    /\ emitted' = Append(emitted, batch)
    /\ recvCount' = Append(recvCount, 0)
    /\ sinkCalls' = Append(sinkCalls, 0)
    /\ sentMsgs' = Append(sentMsgs, DetailedLogsBatch(batch, attributes))
    /\ UNCHANGED firstErr

\* one iteration of `for _, logData := range logs`
LoopStep ==
    /\ mainPc = "loop"
    /\ idx <= Len(logs)
    /\ idx' = idx + 1
    /\ IF SkipOnMarshalError(idx)
       THEN UNCHANGED << currentBatch, currentBatchSize, mainPc, afterSend, historyVars >>
       ELSE IF Overflows(currentBatchSize, LogSize(idx), Len(currentBatch), maxPayloadSize)
            THEN /\ currentBatch' = OverflowBatch(currentBatch, idx)
                 /\ currentBatchSize' = OverflowBatchSize(LogSize(idx))
                 /\ StartSend(OverflowEmit(currentBatch, idx), "loop")
            ELSE /\ currentBatch' = AppendBatch(currentBatch, idx)
                 /\ currentBatchSize' = currentBatchSize + LogSize(idx)
                 /\ UNCHANGED << mainPc, afterSend, historyVars >>
    /\ UNCHANGED << utilVars, inputVars, closed, wg, ctxDone, workerPc, workerBatch >>

\* after the loop: if len(currentBatch) > 0 { ProduceMessageToChannel(...) }
FinalFlush ==
    /\ mainPc = "loop"
    /\ idx > Len(logs)
    /\ IF FlushNeeded(currentBatch)
       THEN StartSend(currentBatch, "close")
       ELSE /\ mainPc' = "close"
            /\ UNCHANGED << afterSend, historyVars >>
    /\ UNCHANGED << utilVars, inputVars, batcherVars, closed, wg, ctxDone, workerPc, workerBatch >>

\* close(channel)
Close ==
    /\ mainPc = "close"
    /\ closed' = TRUE
    /\ mainPc' = AfterClosePc
    /\ UNCHANGED << utilVars, inputVars, batcherVars, afterSend, wg, ctxDone,
                    workerPc, workerBatch, historyVars >>

\* wg.Wait() returns, and with it handleFunctionWithClient
Wait ==
    /\ mainPc = "wait"
    /\ WaitReady(wg)
    /\ mainPc' = "returned"
    /\ UNCHANGED << utilVars, inputVars, batcherVars, afterSend, closed, wg, ctxDone,
                    workerPc, workerBatch, historyVars >>

(***************************************************************************)
(* A worker: ConsumeLogBatches.  A select with several ready cases takes   *)
(* any one of them.                                                        *)
(***************************************************************************)
\* case batch, ok := <-channel with ok: rendezvous with the pending send
Recv(w) ==
    /\ workerPc[w] = "select"
    /\ mainPc = "send"
    /\ workerPc' = [workerPc EXCEPT ![w] = "recvd"]
    /\ workerBatch' = [workerBatch EXCEPT ![w] = Len(emitted)]
    /\ recvCount' = [recvCount EXCEPT ![Len(emitted)] = @ + 1]
    /\ mainPc' = AfterRecvMainPc(afterSend)
    /\ UNCHANGED << utilVars, inputVars, batcherVars, afterSend, closed, wg, ctxDone,
                    emitted, sinkCalls, firstErr, sentMsgs >>

\* case batch, ok := <-channel with !ok: return (defer wg.Done())
RecvClosed(w) ==
    /\ workerPc[w] = "select"
    /\ closed
    /\ workerPc' = [workerPc EXCEPT ![w] = OnClosedPc]
    /\ wg' = IF OnClosedPc = "exited" THEN wg - 1 ELSE wg
    /\ UNCHANGED << utilVars, inputVars, mainPc, batcherVars, afterSend, closed, ctxDone,
                    workerBatch, historyVars >>

\* case <-ctx.Done(): return (defer wg.Done())
CtxExit(w) ==
    /\ workerPc[w] = "select"
    /\ ctxDone
    /\ workerPc' = [workerPc EXCEPT ![w] = "exited"]
    /\ wg' = wg - 1
    /\ UNCHANGED << utilVars, inputVars, mainPc, batcherVars, afterSend, closed, ctxDone,
                    workerBatch, historyVars >>

\* nrClientAPI.CreateLogEntry(batch) is invoked
SinkCall(w) ==
    /\ workerPc[w] = "recvd"
    /\ workerPc' = [workerPc EXCEPT ![w] = "insink"]
    /\ sinkCalls' = [sinkCalls EXCEPT ![workerBatch[w]] = @ + 1]
    /\ UNCHANGED << utilVars, inputVars, mainPc, batcherVars, afterSend, closed, wg, ctxDone,
                    workerBatch, emitted, recvCount, firstErr, sentMsgs >>

\* CreateLogEntry returns, with or without an error
SinkReturn(w) ==
    /\ workerPc[w] = "insink"
    /\ \E err \in BOOLEAN :
         /\ firstErr' = IF err /\ (firstErr = 0 \/ workerBatch[w] < firstErr)
                        THEN workerBatch[w] ELSE firstErr
         /\ workerPc' = [workerPc EXCEPT ![w] = AfterSinkPc(err)]
         /\ wg' = IF AfterSinkPc(err) = "exited" THEN wg - 1 ELSE wg
         /\ workerBatch' = [workerBatch EXCEPT ![w] = IF AfterSinkPc(err) = "recvd" THEN @ ELSE 0]
    /\ UNCHANGED << utilVars, inputVars, mainPc, batcherVars, afterSend, closed, ctxDone,
                    emitted, recvCount, sinkCalls, sentMsgs >>

(***************************************************************************)
(* The environment: the invocation's context is cancelled.                 *)
(***************************************************************************)
Cancel ==
    /\ ~ctxDone
    /\ mainPc \notin {"returned", "panicked", "failed"}
    /\ ctxDone' = TRUE
    /\ UNCHANGED << utilVars, inputVars, mainPc, batcherVars, afterSend, closed, wg,
                    workerPc, workerBatch, historyVars >>

MainStep == Unmarshal \/ StartWorkers \/ LoopStep \/ FinalFlush \/ Close \/ Wait

WorkerStep(w) == Recv(w) \/ RecvClosed(w) \/ CtxExit(w) \/ SinkCall(w) \/ SinkReturn(w)

Next ==
    \/ Unmarshal
    \/ StartWorkers
    \/ LoopStep
    \/ FinalFlush
    \/ Close
    \/ Wait
    \/ \E w \in Workers : Recv(w)
    \/ \E w \in Workers : RecvClosed(w)
    \/ \E w \in Workers : CtxExit(w)
    \/ \E w \in Workers : SinkCall(w)
    \/ \E w \in Workers : SinkReturn(w)
    \/ Cancel

Spec == Init /\ [][Next]_vars

\* The Go scheduler runs every goroutine that can take a step, and every sink
\* call returns; cancellation is the environment's choice and is not forced.
FairSpec ==
    /\ Spec
    /\ WF_vars(MainStep)
    /\ \A w \in Workers : WF_vars(WorkerStep(w))

(***************************************************************************)
(* handleFunction: the invocation that acquires the client itself and then *)
(* runs handleFunctionWithClient.                                          *)
(***************************************************************************)
HandlerInit ==
    /\ clientOk \in BOOLEAN
    /\ parseOk \in BOOLEAN
    /\ logs \in SeqsUpTo(PipelineRecordSizes, MaxLogs)
    /\ (~parseOk => logs = << >>)
    /\ maxPayloadSize = MaxPayload
    /\ attributes = ProcessLogsAttributes
    /\ mainPc = "acquire"
    /\ NothingStarted
    /\ UtilIdle

\* util.NewNRClient() and the check of its error
AcquireClient ==
    /\ mainPc = "acquire"
    /\ mainPc' = AfterAcquirePc(clientOk)
    /\ UNCHANGED << utilVars, inputVars, batcherVars, afterSend, closed, wg, ctxDone,
                    workerPc, workerBatch, historyVars >>

HandlerNext ==
    \/ AcquireClient
    \/ Next

HandlerSpec == HandlerInit /\ [][HandlerNext]_vars

(***************************************************************************)
(* splitLogsIntoBatches on its own, as its callers outside the driver run  *)
(* it: any record sequence (records that do not marshal included), any     *)
(* maxPayloadSize, and a channel whose sends always complete (buffered and *)
(* drained afterwards).                                                    *)
(***************************************************************************)
BatcherInit ==
    /\ clientOk = TRUE
    /\ parseOk = TRUE
    /\ logs \in SeqsUpTo(0..MaxRecordSize, MaxLogs)
    /\ maxPayloadSize \in 1..MaxPayload
    /\ attributes \in { ProcessLogsAttributes, TestAttributes }
    /\ mainPc = "loop"
    /\ NothingStarted
    /\ UtilIdle

\* channel <- batch on a channel with room: the send completes at once
BufferedSend ==
    /\ mainPc = "send"
    /\ mainPc' = afterSend
    /\ recvCount' = [recvCount EXCEPT ![Len(emitted)] = @ + 1]
    /\ UNCHANGED << utilVars, inputVars, batcherVars, afterSend, closed, wg, ctxDone,
                    workerPc, workerBatch, emitted, sinkCalls, firstErr, sentMsgs >>

BatcherNext ==
    \/ LoopStep
    \/ FinalFlush
    \/ BufferedSend

BatcherSpec == BatcherInit /\ [][BatcherNext]_vars

\* splitLogsIntoBatches has returned
BatcherDone == mainPc \in {"close", "wait", "returned"}

(***************************************************************************)
(* Properties of the Batcher (checked under BatcherSpec).                  *)
(***************************************************************************)
\* the input positions whose record marshals
Serializable == { i \in 1..Len(logs) : ~MarshalFails(i) }

Batches == 1..Len(emitted)

\* C1: count conservation - once splitLogsIntoBatches has returned, the record
\* counts of the emitted batches add up to the number of input records that
\* marshalled.
C1_CountConservation ==
    BatcherDone => TotalRecords(emitted) = Cardinality(Serializable)

\* C2: no record is lost - once splitLogsIntoBatches has returned, every input
\* record that marshalled is in at least one emitted batch.
C2_NoRecordLost ==
    BatcherDone => \A i \in Serializable : \E k \in Batches : i \in Range(emitted[k])

\* C3: size invariant - every emitted batch has a total marshalled size of at
\* most maxPayloadSize, or holds exactly one record.
C3_SizeInvariant ==
    \A k \in Batches : BatchSize(emitted[k]) <= maxPayloadSize \/ Len(emitted[k]) = 1

\* C3 witness: a finished run that flushed on overflow and whose last batch
\* holds several records filling maxPayloadSize exactly.
C3_Witness ==
    /\ BatcherDone
    /\ Len(emitted) >= 2
    /\ \E k \in Batches : Len(emitted[k]) >= 2 /\ BatchSize(emitted[k]) = maxPayloadSize

\* C4: an oversized record is still emitted - once splitLogsIntoBatches has
\* returned, every marshalled record larger than maxPayloadSize is the only
\* record of some emitted batch, wherever it stands in the input.
C4_OversizedEmittedAlone ==
    BatcherDone =>
        \A i \in Serializable :
            LogSize(i) > maxPayloadSize => \E k \in Batches : emitted[k] = << i >>

(***************************************************************************)
(* Properties of the pipeline (checked under Spec and FairSpec).           *)
(***************************************************************************)
\* the sends that have completed: all but a send the driver is still blocked in
Sent == { k \in Batches : k < Len(emitted) \/ mainPc # "send" }

\* C5: in a run that was not cancelled, when handleFunctionWithClient has
\* returned every batch it sent was received and passed to CreateLogEntry
\* exactly once.
C5_SentBatchesDelivered ==
    (mainPc = "returned" /\ ~ctxDone) =>
        \A k \in Batches : recvCount[k] = 1 /\ sinkCalls[k] = 1

\* C5 witness: an uncancelled run that sent several batches has returned.
C5_Witness ==
    /\ mainPc = "returned"
    /\ ~ctxDone
    /\ Len(emitted) >= 2
    /\ \A k \in Batches : sinkCalls[k] = 1

\* C6: failure isolation - absent cancellation, no worker has exited before the
\* channel was closed, whatever errors CreateLogEntry returned, and at return
\* every batch sent after a failed one was still passed to the sink.
C6_FailureIsolation ==
    ~ctxDone =>
        /\ \A w \in Workers : workerPc[w] = "exited" => closed
        /\ mainPc = "returned" =>
               \A k \in Batches : (firstErr # 0 /\ k > firstErr) => sinkCalls[k] = 1

\* C6 witness: the sink failed for a batch, a later batch was sent and passed
\* to the sink, and the uncancelled run returned.
C6_Witness ==
    /\ mainPc = "returned"
    /\ ~ctxDone
    /\ firstErr # 0
    /\ \E k \in Batches : k > firstErr /\ sinkCalls[k] = 1

\* C7: every sent batch was received by exactly one worker - no batch is taken
\* twice, no batch is passed to the sink twice, and no two workers hold the
\* same batch.
C7_OneReceiverPerBatch ==
    /\ \A k \in Batches : recvCount[k] <= 1 /\ sinkCalls[k] <= 1
    /\ \A k \in Sent : recvCount[k] = 1
    /\ \A w1, w2 \in Workers :
           (w1 # w2 /\ workerBatch[w1] # 0) => workerBatch[w1] # workerBatch[w2]

\* C7 witness: two workers are inside the sink at once, each with its own batch.
C7_Witness ==
    \E w1, w2 \in Workers :
        /\ w1 # w2
        /\ workerPc[w1] = "insink" /\ workerPc[w2] = "insink"
        /\ workerBatch[w1] # workerBatch[w2]

\* C8: a run on a payload that decodes, and that is never cancelled,
\* terminates: eventually handleFunctionWithClient has returned.
C8_Terminates == <>(mainPc = "returned" \/ ctxDone \/ ~parseOk)

\* C8 witness: an uncancelled run whose sink failed at least once has sent a
\* batch per record of a full-length input and returned.
C8_Witness ==
    /\ mainPc = "returned"
    /\ ~ctxDone
    /\ firstErr # 0
    /\ Len(logs) = MaxLogs
    /\ Len(emitted) = MaxLogs

\* C9: cancellation never hangs the run - once the context is cancelled the
\* run (on a payload that decodes) has returned or some goroutine of it can
\* still take a step.
C9_NoHangAfterCancel ==
    (ctxDone /\ parseOk) =>
        (mainPc = "returned" \/ ENABLED (MainStep \/ \E w \in Workers : WorkerStep(w)))

\* C10: once the context is done no worker receives another batch from the
\* channel and no worker starts a sink call.
C10_NoWorkAfterCancel ==
    [][ctxDone =>
         \A w \in Workers :
             /\ ~(workerPc[w] = "select" /\ workerPc'[w] = "recvd")
             /\ ~(workerPc[w] = "recvd" /\ workerPc'[w] = "insink")]_vars

\* C11: handleFunctionWithClient returns only after all workers have exited -
\* when it has returned, every spawned worker has left ConsumeLogBatches (and
\* so has called wg.Done) and the WaitGroup counter is zero.
C11_ReturnsAfterWorkersExit ==
    mainPc = "returned" => (wg = 0 /\ \A w \in Workers : workerPc[w] = "exited")

\* C11 witness: the run has returned after its workers handled several batches.
C11_Witness ==
    /\ mainPc = "returned"
    /\ Len(emitted) >= 2
    /\ \A w \in Workers : workerPc[w] = "exited"

\* C12: the channel is closed once, after the Batcher's last send completed -
\* while the channel is closed the driver is past close(channel) (it neither
\* sends nor closes again), every send started has been received, and the
\* driver gets past close(channel) only by closing.
C12_CloseAfterLastSend ==
    /\ closed => (mainPc \in {"wait", "returned"} /\ \A k \in Batches : recvCount[k] = 1)
    /\ mainPc \in {"wait", "returned"} => closed

\* C12 witness: the channel was closed after several sends while a worker is
\* still inside the sink with the last batch.
C12_Witness ==
    /\ closed
    /\ Len(emitted) >= 2
    /\ \E w \in Workers : workerPc[w] = "insink" /\ workerBatch[w] = Len(emitted)

\* the Batcher has been invoked: the driver is in ProcessLogs or past it
BatcherInvoked == mainPc \in {"loop", "send", "close", "wait", "returned"}

\* C13: every worker is spawned before the Batcher is invoked - whenever the
\* Batcher has been invoked, or a batch has been handed to the channel, no
\* worker is still unstarted.
C13_WorkersStartedBeforeBatcher ==
    (BatcherInvoked \/ emitted # << >>) =>
        \A w \in Workers : workerPc[w] # "notstarted"

\* C13 witness: the Batcher is about to read its first record of a non-empty
\* input, and every worker already waits at its select.
C13_Witness ==
    /\ mainPc = "loop"
    /\ idx = 1
    /\ logs # << >>
    /\ \A w \in Workers : workerPc[w] = "select"

\* C14: a payload that fails to parse aborts the run before anything starts -
\* the driver never gets past Unmarshal, no worker is spawned, nothing is
\* sent on the channel and the sink is never called.
C14_ParseFailureAbortsEarly ==
    ~parseOk =>
        /\ mainPc \in {"unmarshal", "panicked"}
        /\ \A w \in Workers : workerPc[w] = "notstarted"
        /\ wg = 0
        /\ emitted = << >>
        /\ sinkCalls = << >>

\* C14 witness: Unmarshal has failed on a payload that does not decode.
C14_Witness == ~parseOk /\ mainPc = "panicked"

(***************************************************************************)
(* Properties of handleFunction (checked under HandlerSpec).               *)
(***************************************************************************)
\* C15: when NewNRClient returns an error the invocation ends before anything
\* else happens - the input is not parsed, no worker is spawned, nothing is
\* sent and the sink is never called.
C15_ClientErrorFailsOutright ==
    ~clientOk =>
        /\ mainPc \in {"acquire", "failed"}
        /\ \A w \in Workers : workerPc[w] = "notstarted"
        /\ wg = 0
        /\ emitted = << >>
        /\ sinkCalls = << >>

\* C15 witness: handleFunction has returned on the client error, with a
\* payload at hand that would have produced batches.
C15_Witness == ~clientOk /\ mainPc = "failed" /\ parseOk /\ logs # << >>

(***************************************************************************)
(* More properties of the pipeline (checked under Spec).                   *)
(***************************************************************************)
\* C16: no retry and no re-queue - the sink is invoked at most once for every
\* batch handed to the channel, also after the call for it returned an error,
\* and a worker back at its select holds no batch.
C16_NoRetry ==
    /\ \A k \in Batches : sinkCalls[k] <= 1
    /\ \A w \in Workers : workerPc[w] \in {"select", "exited"} => workerBatch[w] = 0

\* C16 witness: the run has returned, the sink failed for a batch and was
\* called exactly once for it.
C16_Witness ==
    /\ mainPc = "returned"
    /\ firstErr # 0
    /\ sinkCalls[firstErr] = 1

\* C17: empty input - for a payload that decodes to an empty (or null) record
\* sequence nothing is ever handed to the channel, no worker receives or
\* calls the sink, and the run completes: until it has returned some
\* goroutine of it can always take a step.
C17_EmptyInputNoBatches ==
    (parseOk /\ logs = << >>) =>
        /\ emitted = << >>
        /\ sinkCalls = << >>
        /\ \A w \in Workers : workerPc[w] \notin {"recvd", "insink"}
        /\ (mainPc = "returned" \/ ENABLED (MainStep \/ \E w \in Workers : WorkerStep(w)))

\* C17 witness: an uncancelled run on an empty record sequence has returned.
C17_Witness ==
    /\ parseOk /\ logs = << >>
    /\ mainPc = "returned"
    /\ ~ctxDone

(***************************************************************************)
(* More properties of the Batcher (checked under BatcherSpec).             *)
(***************************************************************************)
\* C18: every batch handed to the channel holds at least one record, also
\* when records, or all records, fail to marshal.
C18_BatchesNonEmpty == \A k \in Batches : Len(emitted[k]) >= 1

\* C18 witness: a finished run over an input with a record that does not
\* marshal has emitted a batch.
C18_Witness ==
    /\ BatcherDone
    /\ emitted # << >>
    /\ \E i \in 1..Len(logs) : MarshalFails(i)

\* C19: a record that does not marshal is skipped - it is in no emitted batch,
\* the iteration that meets it leaves the running batch, the running size and
\* the emitted batches as they were and moves on to the next record, and the
\* loop has gone through every record when splitLogsIntoBatches returns.
C19_UnserializableSkipped ==
    /\ [](\A k \in Batches : \A i \in Range(emitted[k]) : ~MarshalFails(i))
    /\ [][(mainPc = "loop" /\ idx <= Len(logs) /\ MarshalFails(idx)) =>
            /\ currentBatch' = currentBatch
            /\ currentBatchSize' = currentBatchSize
            /\ emitted' = emitted
            /\ mainPc' = "loop"
            /\ idx' = idx + 1]_vars
    /\ [](BatcherDone => idx = Len(logs) + 1)

\* C19 witness: a record that does not marshal stood between two records that
\* ended up side by side in one emitted batch.
C19_Witness ==
    /\ BatcherDone
    /\ Len(logs) = 3 /\ MarshalFails(2)
    /\ \E k \in Batches : emitted[k] = << 1, 3 >>

\* C20: within every emitted batch the records stand in the order of the
\* input: the input positions of a batch are strictly increasing.
C20_OrderWithinBatch ==
    \A k \in Batches :
        \A a, b \in 1..Len(emitted[k]) : a < b => emitted[k][a] < emitted[k][b]

\* C20 witness: a finished run that flushed on overflow has emitted a batch of
\* several records.
C20_Witness ==
    /\ BatcherDone
    /\ Len(emitted) >= 2
    /\ \E k \in Batches : Len(emitted[k]) >= 2


(***************************************************************************)
(* The Batcher on inputs that fit one batch, on inputs of oversized        *)
(* records, and the value it puts on the channel.                          *)
(***************************************************************************)
\* the whole input as one batch: positions 1..len(logs) in input order
AllRecords == [k \in 1..Len(logs) |-> k]

\* every record of the input marshals
AllMarshal == Serializable = 1..Len(logs)

\* C21: when the input is non-empty, every record marshals and the serialized
\* sizes of all records together do not exceed maxPayloadSize, then once
\* splitLogsIntoBatches has returned it has emitted exactly one batch, and that
\* batch holds all input records.
C21_SmallInputOneBatch ==
    (BatcherDone /\ logs # << >> /\ AllMarshal /\ BatchSize(AllRecords) <= maxPayloadSize)
        => emitted = << AllRecords >>

C21_Witness ==
    /\ BatcherDone
    /\ Len(logs) >= 2
    /\ AllMarshal
    /\ BatchSize(AllRecords) = maxPayloadSize
    /\ emitted = << AllRecords >>

\* every record alone is larger than maxPayloadSize
AllOversized == \A i \in 1..Len(logs) : LogSize(i) > maxPayloadSize

\* C22: when every input record alone exceeds maxPayloadSize, then once
\* splitLogsIntoBatches has returned the number of emitted batches equals the
\* number of input records and every emitted batch holds exactly one record.
C22_OversizedOnePerBatch ==
    (BatcherDone /\ AllOversized)
        => /\ Len(emitted) = Len(logs)
           /\ \A k \in Batches : Len(emitted[k]) = 1

C22_Witness ==
    /\ BatcherDone
    /\ Len(logs) = MaxLogs
    /\ AllOversized
    /\ Len(emitted) = MaxLogs
    /\ \A k \in Batches : Len(emitted[k]) = 1

\* C23: every value put on the channel is exactly one DetailedLog, whose
\* attributes are the attributes passed to splitLogsIntoBatches and whose entries
\* are the batch; under ProcessLogs these attributes are the three
\* instrumentation attributes (provider, name, version) and no others, the same
\* for every batch of the run.
C23_OneDetailedLogSharedAttributes ==
    /\ Len(sentMsgs) = Len(emitted)
    /\ \A k \in 1..Len(sentMsgs) :
          /\ Len(sentMsgs[k]) = 1
          /\ sentMsgs[k][1].entries = emitted[k]
          /\ sentMsgs[k][1].attributes = attributes
          /\ DOMAIN sentMsgs[k][1].attributes =
                {"instrumentation.provider", "instrumentation.name", "instrumentation.version"}
          /\ sentMsgs[k][1].attributes["instrumentation.provider"] = "InstrumentationProvider"
          /\ sentMsgs[k][1].attributes["instrumentation.name"] = "InstrumentationName"
          /\ sentMsgs[k][1].attributes["instrumentation.version"] = "InstrumentationVersion"

C23_Witness ==
    /\ mainPc = "returned"
    /\ Len(sentMsgs) >= 2
    /\ \E k \in 1..Len(sentMsgs) : Len(sentMsgs[k][1].entries) >= 2
    /\ \A k \in 1..Len(sentMsgs) :
          Len(sentMsgs[k]) = 1 /\ sentMsgs[k][1].attributes = ProcessLogsAttributes

(***************************************************************************)
(* util.NewNRClient and its client cache.  Between invocations the pipeline *)
(* is at rest: handleFunction is about to acquire the client.              *)
(***************************************************************************)
pipelineVars == << inputVars, mainPc, batcherVars, afterSend, closed, wg, ctxDone,
                   workerPc, workerBatch, historyVars >>

PipelineIdle ==
    /\ clientOk = TRUE
    /\ parseOk = TRUE
    /\ logs = << >>
    /\ maxPayloadSize = MaxPayload
    /\ attributes = ProcessLogsAttributes
    /\ mainPc = "acquire"
    /\ NothingStarted

\* the characters an environment value is made of here: signs, digits, and one
\* character that is neither
Digits == { "0", "1", "2" }

EnvChars == Digits \cup { "-", "+", "x" }

DigitValue(ch) == CASE ch = "0" -> 0 [] ch = "1" -> 1 [] ch = "2" -> 2

RECURSIVE Decimal(_)
Decimal(s) ==
    IF s = << >> THEN 0
    ELSE 10 * Decimal(SubSeq(s, 1, Len(s) - 1)) + DigitValue(s[Len(s)])

\* strconv.Atoi: an optional sign followed by one or more decimal digits;
\* anything else is a syntax error, with value 0
Atoi(s) ==
    LET signed == Len(s) > 0 /\ s[1] \in { "+", "-" }
        body == IF signed THEN Tail(s) ELSE s
        ok == body # << >> /\ \A k \in 1..Len(body) : body[k] \in Digits
    IN  [err |-> ~ok,
         value |-> IF ~ok THEN 0
                   ELSE IF signed /\ s[1] = "-" THEN 0 - Decimal(body) ELSE Decimal(body)]

\* os.Getenv: the empty string for a variable that is not set
Getenv(e) == IF e.set THEN e.val ELSE << >>

\* faulty variant: any value that parses is accepted
AnyParsedTTL(parsed) == ~parsed.err

\* err == nil && parsedTTL > 0
PositiveTTL(parsed) == ~parsed.err /\ parsed.value > 0

\* getClientTTL, in seconds
getClientTTL(e) ==
    LET envValue == Getenv(e)
    IN  IF envValue # << >> /\ PositiveTTL(Atoi(envValue))
        THEN Atoi(envValue).value
        ELSE DefaultClientTTL

\* faulty variant: a cached entry is never reused
NeverFresh(age, ttl) == FALSE

\* faulty variant: a cached entry never expires
AlwaysFresh(age, ttl) == TRUE

\* faulty variant: an entry whose age equals the TTL is still reused
FreshAtBoundary(age, ttl) == age <= ttl

\* time.Since(clientCacheTime) < ttl
CacheFresh(age, ttl) == age < ttl

\* faulty variant: the refresh keeps the old timestamp
KeepStamp(t, old) == old

\* clientCacheTime = time.Now()
StampTime(t, old) == t

\* return cachedNRClient, nrClientError
ReturnValue(client, err) == << client, err >>

\* NewNRClient up to its decision: a cached client younger than the TTL is
\* returned, anything else is refreshed
Check(c) ==
    /\ callPc[c] = "idle"
    /\ resAtCall' = resolutions
    /\ IF cachedNRClient # 0
       THEN /\ lastTTL' = << getClientTTL(envTTL) >>
            /\ callPc' = [callPc EXCEPT ![c] =
                  IF CacheFresh(now - clientCacheTime, getClientTTL(envTTL))
                  THEN "hitret" ELSE "create"]
       ELSE /\ UNCHANGED lastTTL
            /\ callPc' = [callPc EXCEPT ![c] = "create"]
    /\ UNCHANGED << pipelineVars, licenseVars, originVars, envTTL, now, cachedNRClient, nrClientError,
                    clientCacheTime, nrClientOnce, resolutions, lastCreated, lastReturn >>

\* createNRClient() returns: a new client every time, with or without an error
Create(c) ==
    /\ callPc[c] = "create"
    /\ resolutions < MaxResolutions
    /\ \E err \in BOOLEAN :
         /\ resolutions' = resolutions + 1
         /\ lastCreated' = << resolutions + 1, err >>
         /\ callLocal' = [callLocal EXCEPT ![c] = << resolutions + 1, err >>]
    /\ callPc' = [callPc EXCEPT ![c] = "storeclient"]
    /\ UNCHANGED << pipelineVars, licenseVars, envTTL, now, cachedNRClient, nrClientError,
                    clientCacheTime, nrClientOnce, resAtCall, lastReturn, lastTTL,
                    errorFrom, lastReturnErrFrom >>

\* cachedNRClient, nrClientError = ...: the first of the two unguarded writes
StoreClient(c) ==
    /\ callPc[c] = "storeclient"
    /\ cachedNRClient' = callLocal[c][1]
    /\ callPc' = [callPc EXCEPT ![c] = "storeerror"]
    /\ UNCHANGED << pipelineVars, licenseVars, originVars, envTTL, now, nrClientError,
                    clientCacheTime, nrClientOnce, resolutions, lastCreated, resAtCall,
                    lastReturn, lastTTL >>

\* cachedNRClient, nrClientError = ...: the second write
StoreError(c) ==
    /\ callPc[c] = "storeerror"
    /\ nrClientError' = callLocal[c][2]
    /\ errorFrom' = callLocal[c][1]
    /\ callPc' = [callPc EXCEPT ![c] = "stamp"]
    /\ UNCHANGED << pipelineVars, licenseVars, envTTL, now, cachedNRClient, clientCacheTime,
                    nrClientOnce, resolutions, lastCreated, resAtCall, lastReturn, lastTTL,
                    callLocal, lastReturnErrFrom >>

\* clientCacheTime = time.Now()
Stamp(c) ==
    /\ callPc[c] = "stamp"
    /\ clientCacheTime' = StampTime(now, clientCacheTime)
    /\ callPc' = [callPc EXCEPT ![c] = "missret"]
    /\ UNCHANGED << pipelineVars, licenseVars, originVars, envTTL, now, cachedNRClient, nrClientError,
                    nrClientOnce, resolutions, lastCreated, resAtCall, lastReturn, lastTTL >>

\* return cachedNRClient, nrClientError (either return statement): the first
\* of the two unguarded reads
ReadClient(c) ==
    /\ callPc[c] \in { "hitret", "missret" }
    /\ callLocal' = [callLocal EXCEPT ![c] = << cachedNRClient, FALSE >>]
    /\ callPc' = [callPc EXCEPT ![c] = IF callPc[c] = "hitret" THEN "hiterr" ELSE "misserr"]
    /\ UNCHANGED << pipelineVars, licenseVars, envTTL, now, cachedNRClient, nrClientError,
                    clientCacheTime, nrClientOnce, resolutions, lastCreated, resAtCall,
                    lastReturn, lastTTL, errorFrom, lastReturnErrFrom >>

\* return cachedNRClient, nrClientError: the second read, and the return
Return(c) ==
    /\ callPc[c] \in { "hiterr", "misserr" }
    /\ lastReturn' = ReturnValue(callLocal[c][1], nrClientError)
    /\ lastReturnErrFrom' = errorFrom
    /\ callLocal' = [callLocal EXCEPT ![c] = << 0, FALSE >>]
    /\ callPc' = [callPc EXCEPT ![c] = "idle"]
    /\ UNCHANGED << pipelineVars, licenseVars, envTTL, now, cachedNRClient, nrClientError,
                    clientCacheTime, nrClientOnce, resolutions, lastCreated, resAtCall,
                    lastTTL, errorFrom >>

\* a second passes
Tick ==
    /\ now < MaxTime
    /\ now' = now + 1
    /\ UNCHANGED << pipelineVars, licenseVars, originVars, envTTL, cachedNRClient, nrClientError,
                    clientCacheTime, nrClientOnce, resolutions, lastCreated, callPc,
                    resAtCall, lastReturn, lastTTL >>

\* CLIENT_TTL as the cache is exercised with it: not set, or a few seconds
CacheEnvTTLs == { Unset, [set |-> TRUE, val |-> << "1" >>], [set |-> TRUE, val |-> << "2" >>] }

CacheInit ==
    /\ PipelineIdle
    /\ envTTL \in CacheEnvTTLs
    /\ CacheEmpty
    /\ secretsEnv = KeyInEnvironment
    /\ licenseCall = NotCalled

\* NewNRClient called from any number of goroutines at once
CacheNext ==
    \/ \E c \in Callers : Check(c)
    \/ \E c \in Callers : Create(c)
    \/ \E c \in Callers : StoreClient(c)
    \/ \E c \in Callers : StoreError(c)
    \/ \E c \in Callers : Stamp(c)
    \/ \E c \in Callers : ReadClient(c)
    \/ \E c \in Callers : Return(c)
    \/ Tick

CacheSpec == CacheInit /\ [][CacheNext]_vars

\* a call begins only when no other call is in progress
SequentialCheck(c) ==
    /\ \A d \in Callers : callPc[d] = "idle"
    /\ Check(c)

\* NewNRClient called by one caller after the other
SequentialNext ==
    \/ \E c \in Callers : SequentialCheck(c)
    \/ \E c \in Callers : Create(c)
    \/ \E c \in Callers : StoreClient(c)
    \/ \E c \in Callers : StoreError(c)
    \/ \E c \in Callers : Stamp(c)
    \/ \E c \in Callers : ReadClient(c)
    \/ \E c \in Callers : Return(c)
    \/ Tick

SequentialSpec == CacheInit /\ [][SequentialNext]_vars

(***************************************************************************)
(* Properties of the TTL cache.                                            *)
(***************************************************************************)
\* the age of the cache entry
Age == now - clientCacheTime

\* there is an entry and it is younger than the TTL
EntryFresh == cachedNRClient # 0 /\ Age < getClientTTL(envTTL)

\* there is an entry and its age has reached the TTL
EntryExpired == cachedNRClient # 0 /\ Age >= getClientTTL(envTTL)

\* C24: with callers one after the other, a NewNRClient call that finds the cache
\* entry younger than the TTL takes the cached path, and when it returns it
\* returns the client and error the previous call returned, which are the result
\* of the resolution that populated the entry; no createNRClient ran during the
\* call and the cached client, error and timestamp are what they were.
C24_StableWithinTTL ==
    [][ \A c \in Callers :
          /\ (callPc[c] = "idle" /\ callPc'[c] # "idle" /\ EntryFresh)
                => /\ callPc'[c] = "hitret"
                   /\ UNCHANGED << cachedNRClient, nrClientError, clientCacheTime, resolutions >>
          /\ (callPc[c] = "hiterr" /\ callPc'[c] = "idle")
                => /\ lastReturn' = lastReturn
                   /\ lastReturn' = lastCreated
                   /\ resolutions' = resAtCall
                   /\ UNCHANGED << cachedNRClient, nrClientError, clientCacheTime >>
      ]_vars

\* a call made one second into a window of two seconds has returned the cached
\* failure of the first call
C24_Witness ==
    /\ \A c \in Callers : callPc[c] = "idle"
    /\ resolutions = 1
    /\ resAtCall = 1
    /\ lastReturn = << 1, TRUE >>
    /\ Age = 1
    /\ EntryFresh

\* C25: with callers one after the other, a NewNRClient call that finds the
\* entry's age at or beyond the TTL takes the refresh path; the refresh sets the
\* timestamp to the current time, and when the call returns exactly one
\* createNRClient has run during it, the cached client and error are that
\* resolution's result (whatever the replaced entry held) and they are what the
\* call returns; a call that then finds the new entry younger than the TTL does
\* not take the refresh path.
C25_RefreshAfterExpiry ==
    [][ \A c \in Callers :
          /\ (callPc[c] = "idle" /\ callPc'[c] # "idle" /\ EntryExpired)
                => callPc'[c] = "create"
          /\ (callPc[c] = "stamp" /\ callPc'[c] = "missret")
                => clientCacheTime' = now
          /\ (callPc[c] = "misserr" /\ callPc'[c] = "idle")
                => /\ resolutions = resAtCall + 1
                   /\ cachedNRClient = resolutions
                   /\ << cachedNRClient, nrClientError >> = lastCreated
                   /\ lastReturn' = lastCreated
          /\ (callPc[c] = "idle" /\ callPc'[c] # "idle" /\ EntryFresh)
                => callPc'[c] # "create"
      ]_vars

\* the first call returned a failure; after expiry the refresh replaced it by a
\* success, stamped with the current time
C25_Witness ==
    /\ \E c \in Callers : callPc[c] = "missret"
    /\ lastReturn = << 1, TRUE >>
    /\ resAtCall = 1
    /\ cachedNRClient = 2
    /\ ~nrClientError
    /\ clientCacheTime = now
    /\ now >= 1

\* the positions of NewNRClient between its decision to refresh and the end of
\* the refresh
RefreshPath == { "create", "storeclient", "storeerror", "stamp" }

\* C26: with concurrent callers, no two calls are on the refresh path of
\* NewNRClient at the same time.
C26_RefreshMutuallyExclusive ==
    \A c, d \in Callers :
        c # d => ~(callPc[c] \in RefreshPath /\ callPc[d] \in RefreshPath)

(***************************************************************************)
(* util.NewNRClient with the one-shot policy: nrClientOnce.Do.             *)
(***************************************************************************)
\* faulty variant: the function runs again after it has completed
RunsUnlessRunning(once) == once # "running"

\* sync.Once runs the function for the first caller only
OnceRuns(once) == once = "new"

\* NewNRClient is entered
OnceCall(c) ==
    /\ callPc[c] = "idle"
    /\ callPc' = [callPc EXCEPT ![c] = "do"]
    /\ resAtCall' = resolutions
    /\ UNCHANGED << pipelineVars, licenseVars, originVars, envTTL, now, cachedNRClient, nrClientError,
                    clientCacheTime, nrClientOnce, resolutions, lastCreated, lastReturn, lastTTL >>

\* nrClientOnce.Do(f): the first caller runs f; a caller that arrives while f
\* runs waits for it to complete; after that Do returns at once
OnceDo(c) ==
    /\ callPc[c] = "do"
    /\ nrClientOnce # "running"
    /\ IF OnceRuns(nrClientOnce)
       THEN /\ nrClientOnce' = "running"
            /\ callPc' = [callPc EXCEPT ![c] = "f"]
       ELSE /\ UNCHANGED nrClientOnce
            /\ callPc' = [callPc EXCEPT ![c] = "ret"]
    /\ UNCHANGED << pipelineVars, licenseVars, originVars, envTTL, now, cachedNRClient, nrClientError,
                    clientCacheTime, resolutions, lastCreated, resAtCall, lastReturn, lastTTL >>

\* f: cachedNRClient, nrClientError = createNRClient(); then Do marks the Once done
OnceCreate(c) ==
    /\ callPc[c] = "f"
    /\ resolutions < MaxResolutions
    /\ \E err \in BOOLEAN :
         /\ resolutions' = resolutions + 1
         /\ cachedNRClient' = resolutions + 1
         /\ nrClientError' = err
         /\ errorFrom' = resolutions + 1
         /\ lastCreated' = << resolutions + 1, err >>
    /\ nrClientOnce' = "done"
    /\ callPc' = [callPc EXCEPT ![c] = "ret"]
    /\ UNCHANGED << pipelineVars, licenseVars, envTTL, now, clientCacheTime,
                    resAtCall, lastReturn, lastTTL, callLocal, lastReturnErrFrom >>

\* return cachedNRClient, nrClientError
OnceReturn(c) ==
    /\ callPc[c] = "ret"
    /\ lastReturn' = ReturnValue(cachedNRClient, nrClientError)
    /\ lastReturnErrFrom' = errorFrom
    /\ callPc' = [callPc EXCEPT ![c] = "idle"]
    /\ UNCHANGED << pipelineVars, licenseVars, envTTL, now, cachedNRClient, nrClientError,
                    clientCacheTime, nrClientOnce, resolutions, lastCreated, resAtCall,
                    lastTTL, callLocal, errorFrom >>

OnceInit ==
    /\ PipelineIdle
    /\ UtilIdle

OnceNext ==
    \/ \E c \in Callers : OnceCall(c)
    \/ \E c \in Callers : OnceDo(c)
    \/ \E c \in Callers : OnceCreate(c)
    \/ \E c \in Callers : OnceReturn(c)
    \/ Tick

OnceSpec == OnceInit /\ [][OnceNext]_vars

\* C27: under the one-shot policy createNRClient never runs a second time,
\* however the calls interleave and however much time passes; every NewNRClient
\* call that returns does so after exactly one createNRClient has run and returns
\* that run's client and error, a failure included.
C27_OneShot ==
    [][ /\ resolutions' <= 1
        /\ \A c \in Callers :
              (callPc[c] = "ret" /\ callPc'[c] = "idle")
                => /\ resolutions = 1
                   /\ lastReturn' = lastCreated
                   /\ lastReturn'[1] = 1
      ]_vars

\* the first call failed; a call begun after createNRClient had run has
\* returned the same failure, at the end of the clock
C27_Witness ==
    /\ resolutions = 1
    /\ resAtCall = 1
    /\ lastReturn = << 1, TRUE >>
    /\ now = MaxTime
    /\ \A c \in Callers : callPc[c] = "idle"

(***************************************************************************)
(* getClientTTL on its own, for every value CLIENT_TTL can have here.       *)
(***************************************************************************)
AllEnvTTLs == { Unset } \cup { [set |-> TRUE, val |-> s] : s \in SeqsUpTo(EnvChars, MaxEnvLen) }

ClientTTLInit ==
    /\ PipelineIdle
    /\ envTTL \in AllEnvTTLs
    /\ CacheEmpty
    /\ secretsEnv = KeyInEnvironment
    /\ licenseCall = NotCalled

\* actualTTL := getClientTTL()
ReadClientTTL ==
    /\ lastTTL = << >>
    /\ lastTTL' = << getClientTTL(envTTL) >>
    /\ UNCHANGED << pipelineVars, licenseVars, originVars, envTTL, now, cachedNRClient, nrClientError,
                    clientCacheTime, nrClientOnce, resolutions, lastCreated, callPc,
                    resAtCall, lastReturn >>

ClientTTLNext == ReadClientTTL

ClientTTLSpec == ClientTTLInit /\ [][ClientTTLNext]_vars

\* the override without a leading plus sign
OverrideDigits ==
    IF envTTL.val # << >> /\ envTTL.val[1] = "+" THEN Tail(envTTL.val) ELSE envTTL.val

\* the override is set and is the decimal notation of a positive integer
PositiveOverride ==
    /\ envTTL.set
    /\ OverrideDigits # << >>
    /\ \A k \in 1..Len(OverrideDigits) : OverrideDigits[k] \in Digits
    /\ \E k \in 1..Len(OverrideDigits) : OverrideDigits[k] # "0"

SecretTexts ==
    { "plain-license-key", "{LicenseKey:json-license-key}", "{otherKey:other-value}",
      "{LicenseKey:}", "" }

\* what GetSecretBundle can answer: an error, a content of another type, a nil
\* content, a content that is not base64, or the base64 form of a text
VaultResponses ==
    { [kind |-> k, content |-> ""] : k \in { "error", "wrongtype", "nil", "badbase64" } }
        \cup { [kind |-> "base64", content |-> s] : s \in SecretTexts }

SecretsEnvs ==
    [licenseKey : { "", "env-license-key" },
     secretOCID : { "", "ocid1.vaultsecret.test" },
     vaultRegion : { "", "us-phoenix-1" },
     principalOk : BOOLEAN,
     response : VaultResponses]

\* faulty variant: the decode error is dropped
DecodeNeverFails(resp) == [err |-> FALSE, text |-> resp.content]

\* base64.StdEncoding.DecodeString(*secretContent.Content)
Base64Decode(resp) ==
    [err |-> resp.kind # "base64", text |-> IF resp.kind = "base64" THEN resp.content ELSE ""]

\* faulty variant: the vault region is not checked
RegionNotChecked(secretOCID, vaultRegion) ==
    IF secretOCID = "" THEN "secret OCID is empty" ELSE "nil"

\* if secretOCID == "" { ... }; if vaultRegion == "" { ... }
ArgumentError(secretOCID, vaultRegion) ==
    IF secretOCID = "" THEN "secret OCID is empty"
    ELSE IF vaultRegion = "" THEN "vault region is empty"
    ELSE "nil"

\* GetSecretFromOCIVault: the secret, the error, and whether SetRegion and
\* GetSecretBundle were called (they are called together or not at all)
GetSecretFromOCIVault(env) ==
    IF ArgumentError(env.secretOCID, env.vaultRegion) # "nil"
    THEN [secret |-> "", err |-> ArgumentError(env.secretOCID, env.vaultRegion), called |-> FALSE]
    ELSE IF env.response.kind = "error"
    THEN [secret |-> "", err |-> "failed to fetch secret bundle", called |-> TRUE]
    ELSE IF env.response.kind = "wrongtype"
    THEN [secret |-> "", err |-> "unexpected secret content type", called |-> TRUE]
    ELSE IF env.response.kind = "nil"
    THEN [secret |-> "", err |-> "secret content is nil", called |-> TRUE]
    ELSE IF Base64Decode(env.response).err
    THEN [secret |-> "", err |-> "failed to decode secret content", called |-> TRUE]
    ELSE [secret |-> Base64Decode(env.response).text, err |-> "nil", called |-> TRUE]

\* faulty variant: the override is not looked at
OverrideIgnored(v) == FALSE

\* os.Getenv(common.EnvLicenseKey) != ""
OverridePresent(v) == v # ""

\* return secretValue, nil
LicenseKeyOf(secretValue) == secretValue

\* if os.Getenv(common.EnvLicenseKey) != "" { return os.Getenv(common.EnvLicenseKey), nil }
CheckOverride ==
    /\ licenseCall.pc = "start"
    /\ licenseCall' =
         IF OverridePresent(secretsEnv.licenseKey)
         THEN [licenseCall EXCEPT !.pc = "done", !.key = secretsEnv.licenseKey, !.err = "nil"]
         ELSE [licenseCall EXCEPT !.pc = "client"]
    /\ UNCHANGED << pipelineVars, cacheVars, secretsEnv >>

\* secretsClient, err := NewOCISecretsManagerClient(); if err != nil { return "", err }
BuildSecretsClient ==
    /\ licenseCall.pc = "client"
    /\ licenseCall' =
         IF secretsEnv.principalOk
         THEN [licenseCall EXCEPT !.pc = "vault", !.clientsBuilt = @ + 1]
         ELSE [licenseCall EXCEPT !.pc = "done", !.clientsBuilt = @ + 1, !.key = "",
                                  !.err = "failed to create OCI secrets client"]
    /\ UNCHANGED << pipelineVars, cacheVars, secretsEnv >>

\* secretValue, err := GetSecretFromOCIVault(...); if err != nil { return "", err };
\* return secretValue, nil
GetSecret ==
    /\ licenseCall.pc = "vault"
    /\ LET got == GetSecretFromOCIVault(secretsEnv)
       IN  licenseCall' =
             [licenseCall EXCEPT !.pc = "done",
                                 !.regionSets = IF got.called THEN @ + 1 ELSE @,
                                 !.bundleCalls = IF got.called THEN @ + 1 ELSE @,
                                 !.key = IF got.err = "nil" THEN LicenseKeyOf(got.secret) ELSE "",
                                 !.err = got.err]
    /\ UNCHANGED << pipelineVars, cacheVars, secretsEnv >>

LicenseInit ==
    /\ PipelineIdle
    /\ envTTL = Unset
    /\ CacheEmpty
    /\ secretsEnv \in SecretsEnvs
    /\ licenseCall = NotCalled

LicenseNext ==
    \/ CheckOverride
    \/ BuildSecretsClient
    \/ GetSecret

LicenseSpec == LicenseInit /\ [][LicenseNext]_vars

\* C29: when the license-key override is present and non-empty, no secrets
\* client is ever constructed and GetSecretBundle is never called, and once
\* GetLicenseKeyWithContext has returned, it returned exactly the override with
\* no error.
C29_OverrideReturnedDirectly ==
    secretsEnv.licenseKey # ""
        => /\ licenseCall.clientsBuilt = 0
           /\ licenseCall.bundleCalls = 0
           /\ licenseCall.pc \in { "start", "done" }
           /\ licenseCall.pc = "done"
                => licenseCall.key = secretsEnv.licenseKey /\ licenseCall.err = "nil"

\* the override was returned although a vault with a readable secret was at hand
C29_Witness ==
    /\ licenseCall.pc = "done"
    /\ secretsEnv.licenseKey = "env-license-key"
    /\ licenseCall.key = "env-license-key"
    /\ secretsEnv.secretOCID # ""
    /\ secretsEnv.vaultRegion # ""
    /\ secretsEnv.principalOk
    /\ secretsEnv.response = [kind |-> "base64", content |-> "plain-license-key"]

\* json.Unmarshal into map[string]string succeeds
IsJSONObject(s) == s \in { "{LicenseKey:json-license-key}", "{otherKey:other-value}", "{LicenseKey:}" }

\* secretMap[common.LicenseKey], the empty text when the field is absent
JSONLicenseKey(s) == IF s = "{LicenseKey:json-license-key}" THEN "json-license-key" ELSE ""

\* C30: when no override is set and GetLicenseKeyWithContext has returned a key
\* read from the vault: if the decoded secret is a JSON object with a non-empty
\* license-key field the key is that field's value, and if the decoded secret is
\* not JSON the key is the decoded secret itself.
C30_JSONFieldOrVerbatim ==
    (licenseCall.pc = "done" /\ secretsEnv.licenseKey = "" /\ licenseCall.err = "nil")
        => /\ (IsJSONObject(secretsEnv.response.content)
                  /\ JSONLicenseKey(secretsEnv.response.content) # "")
                => licenseCall.key = JSONLicenseKey(secretsEnv.response.content)
           /\ ~IsJSONObject(secretsEnv.response.content)
                => licenseCall.key = secretsEnv.response.content

\* no override; the secrets client was built and GetSecretFromOCIVault decoded
\* the vault's content
VaultRead ==
    /\ licenseCall.pc = "done"
    /\ secretsEnv.licenseKey = ""
    /\ secretsEnv.principalOk
    /\ ArgumentError(secretsEnv.secretOCID, secretsEnv.vaultRegion) = "nil"
    /\ secretsEnv.response.kind = "base64"

\* C31: when no override is set and the decoded vault content is empty, or is a
\* JSON object whose license-key field is absent or empty, then
\* GetLicenseKeyWithContext returns an error and an empty key.
C31_EmptyOrFieldlessSecretFails ==
    (VaultRead /\ (secretsEnv.response.content = ""
                     \/ (IsJSONObject(secretsEnv.response.content)
                            /\ JSONLicenseKey(secretsEnv.response.content) = "")))
        => licenseCall.err # "nil" /\ licenseCall.key = ""

\* C32: when no override is set and the construction of the secrets client
\* fails, or the vault does not deliver a content that decodes (fetch error,
\* content of another type, nil content, base64 error), then
\* GetLicenseKeyWithContext returns an error; and whenever it returns an error
\* the key it returns is empty.
C32_VaultFailureGivesErrorAndNoKey ==
    licenseCall.pc = "done"
        => /\ (secretsEnv.licenseKey = ""
                  /\ (~secretsEnv.principalOk \/ secretsEnv.response.kind # "base64"))
                => licenseCall.err # "nil"
           /\ licenseCall.err # "nil" => licenseCall.key = ""

\* the vault answered with a content that is not base64
C32_Witness ==
    /\ licenseCall.pc = "done"
    /\ secretsEnv.licenseKey = ""
    /\ secretsEnv.principalOk
    /\ secretsEnv.response.kind = "badbase64"
    /\ licenseCall.bundleCalls = 1
    /\ licenseCall.err = "failed to decode secret content"
    /\ licenseCall.key = ""

AtOverflow ==
    /\ mainPc = "loop"
    /\ idx <= Len(logs)
    /\ ~MarshalFails(idx)
    /\ Len(currentBatch) > 0
    /\ currentBatchSize + LogSize(idx) > maxPayloadSize

\* C34: at an overflow step the batch emitted is the running batch as it was
\* before the current record (so without the current record), and the new
\* running batch holds the current record only.
C34_OverflowEmitsRunningBatch ==
    [][ (AtOverflow /\ idx' = idx + 1)
          => /\ emitted' = Append(emitted, currentBatch)
             /\ idx \notin Range(emitted'[Len(emitted')])
             /\ currentBatch' = << idx >>
      ]_vars

\* C35: no input record, by position, occurs in more than one emitted batch.
C35_NoRecordEmittedTwice ==
    \A i \in 1..Len(logs) :
        Cardinality({ k \in Batches : i \in Range(emitted[k]) }) <= 1

(***************************************************************************)
(* Backpressure, cancellation during a sink call, and receive order        *)
(* (pipeline).                                                             *)
(***************************************************************************)
\* the batches some worker has received
Received == { k \in Batches : recvCount[k] >= 1 }

\* C36: at every point the number of completed sends minus the number of
\* batches received by workers is at most zero, the capacity of the driver's
\* channel; and while the driver is in a send that no worker has received, the
\* Batcher does not advance: its loop position and running batch stay as they
\* are and no further batch is handed over.
C36_Backpressure ==
    /\ [](Cardinality(Sent) - Cardinality(Received) <= 0)
    /\ [][ (mainPc = "send" /\ recvCount[Len(emitted)] = 0 /\ mainPc' = "send")
             => UNCHANGED << batcherVars, emitted >> ]_vars
    /\ [][ Len(emitted') > Len(emitted) => Received = Batches ]_vars

\* every worker is inside the sink and the driver waits in the send of a third
\* batch
C36_Witness ==
    /\ mainPc = "send"
    /\ Len(emitted) = 3
    /\ recvCount[3] = 0
    /\ \A w \in Workers : workerPc[w] = "insink"

\* the worker holds a batch: it has received it and CreateLogEntry has not
\* returned yet
InFlight(w) == workerPc[w] \in { "recvd", "insink" }

C38_ReceivedInSendOrder ==
    /\ [](\A a, b \in Batches : a < b => recvCount[a] >= 1)
    /\ [][ \A b \in Batches :
             recvCount'[b] > recvCount[b] => \A a \in 1..(b - 1) : recvCount[a] >= 1 ]_vars

\* the sink call of the second batch has returned while the sink call of the
\* first batch, received earlier, is still in progress
C38_Witness ==
    /\ Len(emitted) >= 2
    /\ recvCount[1] = 1 /\ recvCount[2] = 1
    /\ sinkCalls[2] = 1
    /\ \A w \in Workers : workerBatch[w] # 2
    /\ \E w \in Workers : workerBatch[w] = 1 /\ workerPc[w] = "insink"

(***************************************************************************)
(* The TTL boundary and the returned pair.                                 *)
(***************************************************************************)

\* C39: with callers one after the other and a populated cache, a NewNRClient
\* call takes the cached path exactly when the age of the entry is strictly
\* below the TTL, and takes the refresh path at an age equal to the TTL or above
\* it; a call on the cached path returns with no createNRClient run since it
\* was made, a call on the refresh path returns after exactly one.
C39_TTLBoundary ==
    [][ \A c \in Callers :
          /\ (callPc[c] = "idle" /\ callPc'[c] # "idle" /\ cachedNRClient # 0)
                => /\ (callPc'[c] = "hitret") <=> (Age < getClientTTL(envTTL))
                   /\ (callPc'[c] = "create") <=> (Age >= getClientTTL(envTTL))
          /\ (callPc[c] = "hiterr" /\ callPc'[c] = "idle")
                => resolutions' = resAtCall
          /\ (callPc[c] = "misserr" /\ callPc'[c] = "idle")
                => resolutions' = resAtCall + 1
      ]_vars

\* a call that found the entry at an age exactly equal to the TTL is about to
\* run createNRClient
C39_Witness ==
    \E c \in Callers :
        /\ callPc[c] = "create"
        /\ cachedNRClient # 0
        /\ Age = getClientTTL(envTTL)

\* C40: with concurrent callers, the client and the error a NewNRClient call
\* returns are the result of one and the same createNRClient run.
C40_PairFromOneResolution ==
    lastReturn[1] = lastReturnErrFrom
====
